---- MODULE Spec2Model ----
(***************************************************************************)
(* verification/verify_stickman.py: the coroutine run() and its caller.    *)
(*                                                                         *)
(* run() opens the Playwright driver scope (async with), launches a        *)
(* headless Chromium, opens a page and then, inside try/except/finally,    *)
(* navigates, waits for a canvas, sleeps 2 s, takes a screenshot and       *)
(* prints a status line; the finally block closes the browser and the      *)
(* scope exit stops the driver.  __main__ hands run() to asyncio.run.      *)
(*                                                                         *)
(* Every await is a suspension point: it is modelled as a call (Call) and  *)
(* a completion (the ...Return actions), the completion's outcome being    *)
(* drawn from the environment chosen in Init: which driver calls fault,    *)
(* when the application mounts its canvas, what lies at the output path.   *)
(* Task cancellation is not modelled (nothing in the script cancels), so   *)
(* asyncio.sleep never raises.  The driver scope itself is taken to open.  *)
(***************************************************************************)
EXTENDS Integers, Sequences, FiniteSets, TLC

\* Ticks after which page.wait_for_selector gives up (the driver's default
\* timeout: line 14 passes none).
Timeout == 3
\* Largest size, in abstract bytes, of an image file.
MaxShot == 2
\* asyncio.sleep(2), line 17.
SettleDelay == 2

VARIABLES
    pc,         \* the awaited call or statement run() is at
    awaiting,   \* TRUE while the call at pc is issued and not yet completed
    playwright, \* the driver scope: "started" | "stopped"
    browser,    \* "none" | "live" | "closed" (browser.close()) | "terminated" (driver stop)
    page,       \* "none" | "open" | "closed"
    exc,        \* the exception in flight: "none" | "Error" | "TimeoutError"
    stdout,     \* the lines printed by run()
    artifact,   \* the file at verification/screenshot.png
    artifact0,  \* that file before the run
    log,        \* the begin/ok/raised events of the awaited calls, in order
    faults,     \* the driver calls that fault in this run
    canvas,     \* <<t>>: a canvas is mounted t ticks after the wait begins; <<>>: never
    elapsed,    \* ticks spent in wait_for_selector
    slept,      \* ticks spent in asyncio.sleep
    runResult,  \* "pending" | "returned" | "raised"
    exitCode    \* <<>> while the process runs, <<c>> once it exited with status c

vars == <<pc, awaiting, playwright, browser, page, exc, stdout, artifact,
          artifact0, log, faults, canvas, elapsed, slept, runResult, exitCode>>

\* The awaited calls of run(), in source order; "__aexit__" is the exit of
\* the async with block.
Steps == <<"launch", "new_page", "goto", "wait_for_selector", "sleep",
           "screenshot", "close", "__aexit__">>

StepSet == {Steps[i] : i \in DOMAIN Steps}

\* The driver calls that can fault (asyncio.sleep and the scope exit cannot).
Faultable == {"launch", "new_page", "goto", "wait_for_selector", "screenshot", "close"}

\* The calls inside the try block.
TryBlock == {"goto", "wait_for_selector", "sleep", "screenshot"}

Rank(s) == CHOOSE i \in DOMAIN Steps : Steps[i] = s

Range(f) == {f[i] : i \in DOMAIN f}

Begun(s) == <<"begin", s>> \in Range(log)
Ok(s) == <<"ok", s>> \in Range(log)
Raised(s) == <<"raised", s>> \in Range(log)

NoFile == [exists |-> FALSE, size |-> 0, writer |-> "none"]
PriorFile(n) == [exists |-> TRUE, size |-> n, writer |-> "prior"]
ShotFile(n) == [exists |-> TRUE, size |-> n, writer |-> "run"]

TakenLine == [line |-> "Screenshot taken", detail |-> "none"]
ErrorLine(e) == [line |-> "Error", detail |-> e]

\* The canvas selector matches once the application has mounted it.
CanvasPresent == canvas # <<>> /\ elapsed >= canvas[1]

\* Where an exception raised by call s lands: the except clause for the
\* calls inside try, the scope exit for the others.
Handler(s) == IF s \in TryBlock THEN "except" ELSE "__aexit__"

Init ==
    /\ pc = "launch"
    /\ awaiting = FALSE
    /\ playwright = "started"
    /\ browser = "none"
    /\ page = "none"
    /\ exc = "none"
    /\ stdout = <<>>
    /\ artifact0 \in {NoFile} \cup {PriorFile(n) : n \in 1..MaxShot}
    /\ artifact = artifact0
    /\ log = <<>>
    /\ faults \in SUBSET Faultable
    /\ canvas \in {<<>>} \cup {<<t>> : t \in 0..(Timeout + 1)}
    /\ elapsed = 0
    /\ slept = 0
    /\ runResult = "pending"
    /\ exitCode = <<>>

\* Completion of call s without error: control goes on to statement next.
Complete(s, next) ==
    /\ pc = s /\ awaiting
    /\ awaiting' = FALSE
    /\ log' = Append(log, <<"ok", s>>)
    /\ pc' = next

\* Call s raises e: control goes to the handler of s.
Fail(s, e) ==
    /\ pc = s /\ awaiting
    /\ awaiting' = FALSE
    /\ log' = Append(log, <<"raised", s>>)
    /\ exc' = e
    /\ pc' = Handler(s)

\* A call that is issued and not awaited: control goes on at once.
CallNoAwait(s) ==
    /\ pc = s /\ ~awaiting
    /\ log' = Append(log, <<"begin", s>>)
    /\ IF s = "goto"
         THEN pc' = "wait_for_selector" /\ awaiting' = FALSE
         ELSE pc' = pc /\ awaiting' = TRUE
    /\ UNCHANGED <<playwright, browser, page, exc, stdout, artifact, artifact0,
                   faults, canvas, elapsed, slept, runResult, exitCode>>

\* "await <call>": the call is issued and run() suspends until it completes.
Call(s) ==
    /\ pc = s /\ ~awaiting
    /\ awaiting' = TRUE
    /\ log' = Append(log, <<"begin", s>>)
    /\ UNCHANGED <<pc, playwright, browser, page, exc, stdout, artifact, artifact0,
                   faults, canvas, elapsed, slept, runResult, exitCode>>

\* browser = await p.chromium.launch(headless=True)
LaunchReturn ==
    /\ IF "launch" \in faults
         THEN Fail("launch", "Error") /\ UNCHANGED browser
         ELSE Complete("launch", "new_page") /\ browser' = "live" /\ UNCHANGED exc
    /\ UNCHANGED <<playwright, page, stdout, artifact, artifact0, faults, canvas,
                   elapsed, slept, runResult, exitCode>>

\* page = await browser.new_page()
NewPageReturn ==
    /\ IF "new_page" \in faults
         THEN Fail("new_page", "Error") /\ UNCHANGED page
         ELSE Complete("new_page", "goto") /\ page' = "open" /\ UNCHANGED exc
    /\ UNCHANGED <<playwright, browser, stdout, artifact, artifact0, faults, canvas,
                   elapsed, slept, runResult, exitCode>>

\* A navigation failure that is logged and then ignored.
GotoReturnIgnoreFault ==
    /\ pc = "goto" /\ awaiting
    /\ awaiting' = FALSE
    /\ log' = Append(log, << IF "goto" \in faults THEN "raised" ELSE "ok", "goto" >>)
    /\ pc' = "wait_for_selector"
    /\ UNCHANGED <<playwright, browser, page, exc, stdout, artifact, artifact0, faults,
                   canvas, elapsed, slept, runResult, exitCode>>

\* await page.goto("http://localhost:5173")
GotoReturn ==
    /\ IF "goto" \in faults
         THEN Fail("goto", "Error")
         ELSE Complete("goto", "wait_for_selector") /\ UNCHANGED exc
    /\ UNCHANGED <<playwright, browser, page, stdout, artifact, artifact0, faults,
                   canvas, elapsed, slept, runResult, exitCode>>

\* Time passes while wait_for_selector polls for the canvas.
Poll ==
    /\ pc = "wait_for_selector" /\ awaiting
    /\ "wait_for_selector" \notin faults
    /\ ~CanvasPresent
    /\ elapsed < Timeout
    /\ elapsed' = elapsed + 1
    /\ UNCHANGED <<pc, awaiting, playwright, browser, page, exc, stdout, artifact,
                   artifact0, log, faults, canvas, slept, runResult, exitCode>>

\* A wait with the timeout disabled: it ends only when the canvas is there.
WaitForSelectorReturnNoTimeout ==
    /\ \/ /\ "wait_for_selector" \in faults
          /\ Fail("wait_for_selector", "Error")
       \/ /\ "wait_for_selector" \notin faults
          /\ CanvasPresent
          /\ Complete("wait_for_selector", "sleep") /\ UNCHANGED exc
    /\ UNCHANGED <<playwright, browser, page, stdout, artifact, artifact0, faults,
                   canvas, elapsed, slept, runResult, exitCode>>

\* await page.wait_for_selector("canvas"): the element handle once the
\* selector matches, TimeoutError once the timeout has elapsed, another
\* driver error when the call faults.
WaitForSelectorReturn ==
    /\ \/ /\ "wait_for_selector" \in faults
          /\ Fail("wait_for_selector", "Error")
       \/ /\ "wait_for_selector" \notin faults
          /\ CanvasPresent
          /\ Complete("wait_for_selector", "sleep") /\ UNCHANGED exc
       \/ /\ "wait_for_selector" \notin faults
          /\ elapsed >= Timeout
          /\ Fail("wait_for_selector", "TimeoutError")
    /\ UNCHANGED <<playwright, browser, page, stdout, artifact, artifact0, faults,
                   canvas, elapsed, slept, runResult, exitCode>>

\* Time passes during asyncio.sleep(2).
Timer ==
    /\ pc = "sleep" /\ awaiting
    /\ slept < SettleDelay
    /\ slept' = slept + 1
    /\ UNCHANGED <<pc, awaiting, playwright, browser, page, exc, stdout, artifact,
                   artifact0, log, faults, canvas, elapsed, runResult, exitCode>>

\* await asyncio.sleep(2) returns when the delay has elapsed.
SleepReturn ==
    /\ slept >= SettleDelay
    /\ Complete("sleep", "screenshot")
    /\ UNCHANGED <<playwright, browser, page, exc, stdout, artifact, artifact0, faults,
                   canvas, elapsed, slept, runResult, exitCode>>

\* A capture that reports success and writes nothing.
ScreenshotReturnNoWrite ==
    /\ IF "screenshot" \in faults
         THEN Fail("screenshot", "Error")
         ELSE Complete("screenshot", "print") /\ UNCHANGED exc
    /\ UNCHANGED <<playwright, browser, page, stdout, artifact, artifact0, faults,
                   canvas, elapsed, slept, runResult, exitCode>>

\* await page.screenshot(path="verification/screenshot.png"): on success the
\* encoded image replaces the file; a fault leaves the file alone (the
\* driver failed) or truncated (the write failed).
ScreenshotReturn ==
    /\ IF "screenshot" \in faults
         THEN /\ Fail("screenshot", "Error")
              /\ artifact' \in {artifact, ShotFile(0)}
         ELSE /\ Complete("screenshot", "print") /\ UNCHANGED exc
              /\ \E n \in 1..MaxShot : artifact' = ShotFile(n)
    /\ UNCHANGED <<playwright, browser, page, stdout, artifact0, faults, canvas,
                   elapsed, slept, runResult, exitCode>>

\* A success path that prints nothing.
PrintTakenSilent ==
    /\ pc = "print"
    /\ pc' = "close"
    /\ UNCHANGED <<awaiting, playwright, browser, page, exc, stdout, artifact, artifact0,
                   log, faults, canvas, elapsed, slept, runResult, exitCode>>

\* print("Screenshot taken"), then the finally block.
PrintTaken ==
    /\ pc = "print"
    /\ stdout' = Append(stdout, TakenLine)
    /\ pc' = "close"
    /\ UNCHANGED <<awaiting, playwright, browser, page, exc, artifact, artifact0, log,
                   faults, canvas, elapsed, slept, runResult, exitCode>>

\* An except clause that is not followed by the finally block.
ExceptNoFinally ==
    /\ pc = "except"
    /\ stdout' = Append(stdout, ErrorLine(exc))
    /\ exc' = "none"
    /\ pc' = "__aexit__"
    /\ UNCHANGED <<awaiting, playwright, browser, page, artifact, artifact0, log, faults,
                   canvas, elapsed, slept, runResult, exitCode>>

\* An except clause that tries the navigation a second time.
ExceptRetry ==
    /\ pc = "except"
    /\ stdout' = Append(stdout, ErrorLine(exc))
    /\ exc' = "none"
    /\ pc' = IF Cardinality({i \in DOMAIN log : log[i][1] = "raised"}) < 2
               THEN "goto" ELSE "close"
    /\ UNCHANGED <<awaiting, playwright, browser, page, artifact, artifact0, log, faults,
                   canvas, elapsed, slept, runResult, exitCode>>

\* except Exception as e: print(f"Error: {e}"), then the finally block.
Except ==
    /\ pc = "except"
    /\ stdout' = Append(stdout, ErrorLine(exc))
    /\ exc' = "none"
    /\ pc' = "close"
    /\ UNCHANGED <<awaiting, playwright, browser, page, artifact, artifact0, log, faults,
                   canvas, elapsed, slept, runResult, exitCode>>

\* finally: await browser.close().  A fault leaves the browser as it is and
\* leaves run() through the scope exit.
CloseReturn ==
    /\ IF "close" \in faults
         THEN Fail("close", "Error") /\ UNCHANGED <<browser, page>>
         ELSE /\ Complete("close", "__aexit__") /\ UNCHANGED exc
              /\ browser' = "closed"
              /\ page' = "closed"
    /\ UNCHANGED <<playwright, stdout, artifact, artifact0, faults, canvas, elapsed,
                   slept, runResult, exitCode>>

\* A scope exit that stops the driver and leaves its browsers running.
ExitReturnNoReap ==
    /\ Complete("__aexit__", "done")
    /\ playwright' = "stopped"
    /\ runResult' = IF exc = "none" THEN "returned" ELSE "raised"
    /\ UNCHANGED <<browser, page, exc, stdout, artifact, artifact0, faults, canvas,
                   elapsed, slept, exitCode>>

\* The end of "async with async_playwright() as p": the driver is stopped,
\* and with it every browser it still runs; the exception in flight, if
\* any, goes on to the caller of run().
ExitReturn ==
    /\ Complete("__aexit__", "done")
    /\ playwright' = "stopped"
    /\ browser' = IF browser = "live" THEN "terminated" ELSE browser
    /\ page' = IF page = "open" THEN "closed" ELSE page
    /\ runResult' = IF exc = "none" THEN "returned" ELSE "raised"
    /\ UNCHANGED <<exc, stdout, artifact, artifact0, faults, canvas, elapsed, slept,
                   exitCode>>

\* asyncio.run(run()) at module level: the interpreter exits with status 0
\* when run() returned and 1 when its exception reached the top level.
Main ==
    /\ pc = "done"
    /\ pc' = "exited"
    /\ exitCode' = << IF runResult = "raised" THEN 1 ELSE 0 >>
    /\ UNCHANGED <<awaiting, playwright, browser, page, exc, stdout, artifact, artifact0,
                   log, faults, canvas, elapsed, slept, runResult>>

Next ==
    \/ \E s \in StepSet : Call(s)
    \/ LaunchReturn
    \/ NewPageReturn
    \/ GotoReturn
    \/ Poll
    \/ WaitForSelectorReturn
    \/ Timer
    \/ SleepReturn
    \/ ScreenshotReturn
    \/ PrintTaken
    \/ Except
    \/ CloseReturn
    \/ ExitReturn
    \/ Main

Spec == Init /\ [][Next]_vars

\* The event loop runs run() whenever it can go on, and time passes.
FairSpec == Spec /\ WF_vars(Next)

(***************************************************************************)
(* Properties                                                              *)
(***************************************************************************)

\* run() has ended, by return or by exception.
RunEnded == runResult # "pending"

IsBegin(i) == log[i][1] = "begin"
IsEnd(i) == log[i][1] \in {"ok", "raised"}

\* C1: whenever the browser was launched and the page opened, the finally
\* block has issued browser.close() and no browser is live once run() has
\* ended; whenever run() has returned, the browser has been closed by
\* browser.close(), whatever navigation, the wait and the capture did.
C1_BrowserClosedOnReturn ==
    /\ (RunEnded /\ Ok("new_page")) => (Begun("close") /\ browser # "live")
    /\ runResult = "returned" => (Ok("close") /\ browser = "closed")

\* C1 witness: run() has returned after a readiness timeout, browser closed.
C1_Witness ==
    /\ runResult = "returned"
    /\ Raised("wait_for_selector")
    /\ browser = "closed"

C3_EveryErrorCaught ==
    RunEnded =>
        /\ runResult = "returned"
        /\ (\E s \in StepSet : Raised(s)) => (\E e \in {"Error", "TimeoutError"} :
                                                 ErrorLine(e) \in Range(stdout))

\* C4: the process exits with status 0 exactly when the screenshot was
\* captured, and with a non-zero status whenever navigation, the readiness
\* wait or the capture failed.
C4_ExitCodeReflectsOutcome ==
    pc = "exited" =>
        /\ (exitCode = <<0>>) <=> Ok("screenshot")
        /\ (Raised("goto") \/ Raised("wait_for_selector") \/ Raised("screenshot"))
              => exitCode # <<0>>

\* C5: the calls begin in source order (launch, new_page, goto,
\* wait_for_selector, sleep, screenshot, close, scope exit); each begins only
\* when the one before it has completed; the sleep begins right after a
\* successful wait and lasts its full delay, and the capture begins right
\* after the sleep; and once run() has ended the last thing it did is the
\* release (browser.close() if it was issued, then the scope exit).
C5_StepsInOrder ==
    /\ \A i, j \in DOMAIN log :
          (i < j /\ IsBegin(i) /\ IsBegin(j)) => Rank(log[i][2]) < Rank(log[j][2])
    /\ \A i \in DOMAIN log :
          /\ (IsBegin(i) /\ i > 1) => IsEnd(i - 1)
          /\ IsEnd(i) => (i > 1 /\ log[i - 1] = <<"begin", log[i][2]>>)
          /\ log[i] = <<"begin", "sleep">> => log[i - 1] = <<"ok", "wait_for_selector">>
          /\ log[i] = <<"begin", "screenshot">> => log[i - 1] = <<"ok", "sleep">>
    /\ Ok("sleep") => slept = SettleDelay
    /\ RunEnded =>
          /\ log[Len(log)] = <<"ok", "__aexit__">>
          /\ Begun("close") => log[Len(log) - 2][2] = "close"

\* C5 witness: a complete run, every step executed, ended.
C5_Witness ==
    /\ pc = "exited"
    /\ Ok("screenshot")
    /\ Ok("close")
    /\ Len(log) = 2 * Len(Steps)

\* C6: the capture begins only after navigation and the readiness wait both
\* succeeded; when either of them failed the capture never begins and the
\* file at the output path is what it was before the run.
C6_CaptureOnlyAfterReady ==
    /\ Begun("screenshot") => (Ok("goto") /\ Ok("wait_for_selector"))
    /\ (Raised("goto") \/ Raised("wait_for_selector"))
          => (~Begun("screenshot") /\ artifact = artifact0)

\* C6 witness: the run ended after a failed navigation, the earlier file intact.
C6_Witness ==
    /\ pc = "exited"
    /\ Raised("goto")
    /\ artifact0.exists
    /\ artifact = artifact0

\* The run is over, the readiness timeout was the reported failure, nothing
\* was captured and no browser lives.
TimedOut ==
    /\ RunEnded
    /\ Raised("wait_for_selector")
    /\ stdout = <<ErrorLine("TimeoutError")>>
    /\ ~Begun("screenshot")
    /\ browser \in {"closed", "terminated"}

\* C7: when the application never mounts a canvas, a readiness wait that is
\* under way leads to the end of the run on the timeout path: TimeoutError
\* reported, no capture, no live browser.
C7_ReadinessTimeout ==
    (canvas = <<>> /\ pc = "wait_for_selector" /\ awaiting
        /\ "wait_for_selector" \notin faults) ~> TimedOut

\* C7 witness: a run without canvas that ended on the timeout path.
C7_Witness ==
    /\ canvas = <<>>
    /\ elapsed = Timeout
    /\ TimedOut

\* C8: when navigation, the readiness wait and the capture succeeded, then
\* once run() has ended "Screenshot taken" is printed, the file at the output
\* path is the non-empty image of this run, and no browser is live.
C8_SuccessPath ==
    (RunEnded /\ Ok("goto") /\ Ok("wait_for_selector") /\ Ok("screenshot")) =>
        /\ stdout = <<TakenLine>>
        /\ artifact.exists /\ artifact.size > 0 /\ artifact.writer = "run"
        /\ browser \in {"closed", "terminated"}

\* C8 witness: a successful run that started without a file at the output path.
C8_Witness ==
    /\ runResult = "returned"
    /\ Ok("screenshot")
    /\ artifact0 = NoFile
    /\ artifact.size > 0
    /\ browser = "closed"

\* C9: each call begins at most once, and after a call has raised no call
\* at or before it in source order begins again.
C9_FireOnce ==
    /\ \A s \in StepSet :
          Cardinality({i \in DOMAIN log : log[i] = <<"begin", s>>}) <= 1
    /\ \A i, j \in DOMAIN log :
          (i < j /\ log[i][1] = "raised" /\ IsBegin(j))
              => Rank(log[j][2]) > Rank(log[i][2])

\* C9 witness: a run in which navigation raised and which then ran to its end.
C9_Witness ==
    /\ pc = "exited"
    /\ Raised("goto")
    /\ Begun("close")

\* C10: at most one status line is ever printed; once the try statement is
\* left (page opened), exactly one is: "Screenshot taken" exactly when the
\* capture completed, an "Error" line exactly when a call inside try raised.
C10_OneStatusLine ==
    /\ Len(stdout) <= 1
    /\ (pc \in {"close", "__aexit__", "done", "exited"} /\ Ok("new_page")) =>
          /\ Len(stdout) = 1
          /\ (TakenLine \in Range(stdout)) <=> Ok("screenshot")
          /\ (\E e \in {"Error", "TimeoutError"} : ErrorLine(e) \in Range(stdout))
                <=> (\E s \in TryBlock : Raised(s))

\* C10 witness: a run that printed "Screenshot taken" and nothing else.
C10_Witness ==
    /\ pc = "exited"
    /\ stdout = <<TakenLine>>
    /\ Ok("screenshot")

====
